---- MODULE Spec2Model ----
(***************************************************************************)
(* A model of findcc (src/findcc.go): a sequential scan of a byte stream   *)
(* for runs of numlen ASCII digits that pass a checksum (Luhn by default,  *)
(* a plain modulus-10 sum with -mod10).  Bytes are their integer values:   *)
(* '0' is 48, '9' is 57, '\n' is 10.                                        *)
(***************************************************************************)
EXTENDS Integers, Sequences, FiniteSets, TLC

VARIABLES
    numlen,    \* *numlen: the -n flag, the length of the number to find
    mod10,     \* *mod10: the -mod10 flag
    quiet,     \* *quiet: the -q flag
    nargs,     \* flag.NArg(): the number of positional arguments
    pc,        \* position of mymain: "args", "scan", "done" ("validator" in SpecV)
    input,     \* the bytes the input stream has delivered so far, in order
    rd,        \* outcome of the last input.Read: "none", "byte", "eof", "error", "zero"
    digits,    \* digits: the buffer of sequential input digits
    nline,     \* nline: number of newlines read
    nread,     \* nread: number of bytes read
    header,    \* whether the header line was written to standard output
    out,       \* the match lines written to standard output, in order
    nchecked,  \* number of times the checksum side of the report condition was evaluated
    exit,      \* the set holding the value mymain returned, empty until it returns
    valid,     \* SpecV only: the set holding the verdict computed for digits, {} before
    earlier    \* SpecPair only: the state of the earlier variant (src/unnamed/part_000)
               \* run on the same stream, <<>> elsewhere

vars == <<numlen, mod10, quiet, nargs, pc, input, rd, digits, nline, nread,
          header, out, nchecked, exit, valid, earlier>>

----------------------------------------------------------------------------
(* Bounds of the model. *)

\* longest input stream explored by Spec
MaxLen == 4
\* largest -n explored by Spec
MaxN == 3
\* longest digit sequence handed to the validators in SpecV
MaxDigits == 4

\* the bytes a stream of Spec is made of: '0', '1', '9', '\n', 'a'
Bytes == {48, 49, 57, 10, 97}
\* the ten ASCII digits
DigitBytes == 48..57

\* mymain has not returned yet
Running == {}

\* default of the -n flag
DefaultNumlen == 16

----------------------------------------------------------------------------
(* Pure functions of the program. *)

\* unicode.IsDigit(rune(buf[0])): a byte converts to a rune in 0..255, where
\* unicode.IsDigit is '0' <= r && r <= '9'.
IsDigit(r) == r >= 48 /\ r <= 57

RECURSIVE mod10Exp(_, _, _)
\* the loop of mod10Valid over digits[:len(digits)-1], from index i on
mod10Exp(ds, i, exp) ==
    IF i > Len(ds) - 1 THEN exp
    ELSE mod10Exp(ds, i + 1, (exp + (ds[i] - 48)) % 10)

RECURSIVE mod10ExpNoMod(_, _, _)
mod10ExpNoMod(ds, i, exp) ==
    IF i > Len(ds) - 1 THEN exp
    ELSE mod10ExpNoMod(ds, i + 1, exp + (ds[i] - 48))

mod10ValidNoMod(ds) == (ds[Len(ds)] - 48) = mod10ExpNoMod(ds, 1, 0)
mod10Valid(ds) == (ds[Len(ds)] - 48) = mod10Exp(ds, 1, 0)

RECURSIVE calculateChecksum(_, _, _)
\* luhn.calculateChecksum: from the last character to the first, doubling
\* every second value and subtracting 9 from a value of 10 or more
calculateChecksum(s, i, double) ==
    IF i < 1 THEN 0
    ELSE LET t == s[i] - 48
             n == IF double THEN t * 2 ELSE t
             m == IF n >= 10 THEN n - 9 ELSE n
         IN  m + calculateChecksum(s, i - 1, ~double)

\* luhn.Valid(string(digits))
luhnValid(s) == calculateChecksum(s, Len(s), FALSE) % 10 = 0

\* the checksum side of the report condition
ChecksumOKSwapped(ds, m10) == (m10 /\ luhnValid(ds)) \/ (~m10 /\ mod10Valid(ds))
ChecksumOK(ds, m10) == (m10 /\ mod10Valid(ds)) \/ (~m10 /\ luhnValid(ds))

\* whether the length side of the report condition lets the checksum be evaluated
LenOKAtLeastOne(ds, n) == Len(ds) >= 1
LenOK(ds, n) == Len(ds) = n

RECURSIVE Trim(_, _)
\* variants of Trim: keep the front; trim only once the window is two too long
TrimFront(ds, n) == IF Len(ds) > n THEN SubSeq(ds, 1, n) ELSE ds
TrimLate(ds, n) == IF Len(ds) > n + 1 THEN SubSeq(ds, Len(ds) - n + 1, Len(ds)) ELSE ds
TrimNone(ds, n) == ds
\* for len(digits) > *numlen { digits = digits[1:] }
Trim(ds, n) == IF Len(ds) > n THEN Trim(Tail(ds), n) ELSE ds

RECURSIVE TrimIters(_, _)
\* the number of iterations of the trimming loop on ds
TrimIters(ds, n) == IF Len(ds) > n THEN 1 + TrimIters(Tail(ds), n) ELSE 0

\* if 0 < len(digits) { digits = []byte{} }
ClearKeep(ds) == ds
Clear(ds) == IF 0 < Len(ds) THEN <<>> ELSE ds

\* if '\n' == buf[0] { nline++ }
CountLineNever(nl, b) == nl
CountLine(nl, b) == IF b = 10 THEN nl + 1 ELSE nl

\* variants of Match: the offset of the last byte read; the offset without nread
MatchOffsetEnd(nr, nl, ds) == [offset |-> nr - 1, line |-> nl, number |-> ds]
MatchNoRead(nr, nl, ds) == [offset |-> Len(ds) - 1, line |-> nl, number |-> ds]
\* the line written for a match: nread-len(digits)-1, nline, string(digits)
MatchLineFromOne(nr, nl, ds) == [offset |-> nr - Len(ds) - 1, line |-> nl + 1, number |-> ds]
Match(nr, nl, ds) == [offset |-> nr - Len(ds) - 1, line |-> nl, number |-> ds]

\* os.Exit(code): the process exit status is the low 8 bits of the code
ExitStatus(code) == code % 256

----------------------------------------------------------------------------
(* The program. *)

Init ==
    /\ numlen \in 1..MaxN
    /\ mod10 \in BOOLEAN
    /\ quiet \in BOOLEAN
    /\ nargs \in 0..2
    /\ pc = "args"
    /\ input = <<>>
    /\ rd = "none"
    /\ digits = <<>>
    /\ nline = 0
    /\ nread = 0
    /\ header = FALSE
    /\ out = <<>>
    /\ nchecked = 0
    /\ exit = Running
    /\ valid = {}
    /\ earlier = <<>>

\* os.Open fails: "Unable to open", return -1
OpenFail ==
    /\ pc = "args"
    /\ nargs = 1
    /\ pc' = "done"
    /\ exit' = {-1}
    /\ UNCHANGED <<numlen, mod10, quiet, nargs, input, rd, digits, nline, nread,
                   header, out, nchecked, valid, earlier>>

\* a variant of MultiArgs that returns the status of a file-open failure
MultiArgsAsOpen ==
    /\ pc = "args"
    /\ 1 < nargs
    /\ pc' = "done"
    /\ exit' = {-1}
    /\ UNCHANGED <<numlen, mod10, quiet, nargs, input, rd, digits, nline, nread,
                   header, out, nchecked, valid, earlier>>

\* more than one positional argument: return -2
MultiArgs ==
    /\ pc = "args"
    /\ 1 < nargs
    /\ pc' = "done"
    /\ exit' = {-2}
    /\ UNCHANGED <<numlen, mod10, quiet, nargs, input, rd, digits, nline, nread,
                   header, out, nchecked, valid, earlier>>

\* a variant of Begin that does not look at the number of arguments
BeginAnyArgs ==
    /\ pc = "args"
    /\ header' = ~quiet
    /\ digits' = <<>>
    /\ nline' = 0
    /\ nread' = 0
    /\ pc' = "scan"
    /\ UNCHANGED <<numlen, mod10, quiet, nargs, input, rd, out, nchecked, exit, valid, earlier>>

\* stdin, or the one file opened: print the header unless quiet, set up the scan
Begin ==
    /\ pc = "args"
    /\ nargs <= 1
    /\ header' = ~quiet
    /\ digits' = <<>>
    /\ nline' = 0
    /\ nread' = 0
    /\ pc' = "scan"
    /\ UNCHANGED <<numlen, mod10, quiet, nargs, input, rd, out, nchecked, exit, valid, earlier>>

\* one iteration of the loop on a read that delivers the byte b
ReadByte(b) ==
    /\ pc = "scan"
    /\ input' = Append(input, b)
    /\ rd' = "byte"
    /\ nread' = nread + 1
    /\ nline' = CountLine(nline, b)
    /\ IF ~IsDigit(b)
       THEN /\ digits' = Clear(digits)
            /\ UNCHANGED <<out, nchecked>>
       ELSE /\ digits' = Trim(Append(digits, b), numlen)
            /\ nchecked' = IF LenOK(digits', numlen) THEN nchecked + 1 ELSE nchecked
            /\ out' = IF LenOK(digits', numlen) /\ ChecksumOK(digits', mod10)
                      THEN Append(out, Match(nread', nline', digits'))
                      ELSE out
    /\ UNCHANGED <<numlen, mod10, quiet, nargs, pc, header, exit, valid>>

\* a variant of ReadEOF that reports the pending window at end-of-stream
ReadEOFFlush ==
    /\ pc = "scan"
    /\ rd' = "eof"
    /\ pc' = "done"
    /\ exit' = {0}
    /\ out' = IF Len(digits) > 0 THEN Append(out, Match(nread, nline, digits)) ELSE out
    /\ UNCHANGED <<numlen, mod10, quiet, nargs, input, digits, nline, nread,
                   header, nchecked, valid, earlier>>

\* the read returns io.EOF: return 0
ReadEOF ==
    /\ pc = "scan"
    /\ rd' = "eof"
    /\ pc' = "done"
    /\ exit' = {0}
    /\ UNCHANGED <<numlen, mod10, quiet, nargs, input, digits, nline, nread,
                   header, out, nchecked, valid, earlier>>

\* a variant of ReadError that reports the error and reads again
ReadErrorRetry ==
    /\ pc = "scan"
    /\ rd' = "error"
    /\ UNCHANGED <<numlen, mod10, quiet, nargs, pc, input, digits, nline, nread,
                   header, out, nchecked, exit, valid, earlier>>

\* the read returns another error: "Read error", return -3
ReadError ==
    /\ pc = "scan"
    /\ rd' = "error"
    /\ pc' = "done"
    /\ exit' = {-3}
    /\ UNCHANGED <<numlen, mod10, quiet, nargs, input, digits, nline, nread,
                   header, out, nchecked, valid, earlier>>

\* the read returns no byte and no error: return -4
ReadZero ==
    /\ pc = "scan"
    /\ rd' = "zero"
    /\ pc' = "done"
    /\ exit' = {-4}
    /\ UNCHANGED <<numlen, mod10, quiet, nargs, input, digits, nline, nread,
                   header, out, nchecked, valid, earlier>>

\* a variant of the loop iteration in which a reported window is consumed
ReadByteConsume(b) ==
    /\ pc = "scan"
    /\ input' = Append(input, b)
    /\ rd' = "byte"
    /\ nread' = nread + 1
    /\ nline' = CountLine(nline, b)
    /\ IF ~IsDigit(b)
       THEN /\ digits' = Clear(digits)
            /\ UNCHANGED <<out, nchecked>>
       ELSE LET ds == Trim(Append(digits, b), numlen)
            IN  /\ nchecked' = IF LenOK(ds, numlen) THEN nchecked + 1 ELSE nchecked
                /\ IF LenOK(ds, numlen) /\ ChecksumOK(ds, mod10)
                   THEN /\ out' = Append(out, Match(nread', nline', ds))
                        /\ digits' = <<>>
                   ELSE /\ out' = out
                        /\ digits' = ds
    /\ UNCHANGED <<numlen, mod10, quiet, nargs, pc, header, exit, valid>>

ReadNextConsume ==
    \E b \in Bytes : Len(input) < MaxLen /\ ReadByteConsume(b) /\ UNCHANGED earlier

\* the stream delivers one more byte, while it is shorter than MaxLen
ReadNext ==
    \E b \in Bytes : Len(input) < MaxLen /\ ReadByte(b) /\ UNCHANGED earlier

Next ==
    \/ OpenFail
    \/ MultiArgs
    \/ Begin
    \/ ReadNext
    \/ ReadEOF
    \/ ReadError
    \/ ReadZero

Spec == Init /\ [][Next]_vars

\* the process keeps running until mymain returns, and a finite stream ends
FairSpec == Init /\ [][Next]_vars /\ WF_vars(Next)

----------------------------------------------------------------------------
(* The validators and the report condition on their own: every sequence of *)
(* 1..MaxDigits ASCII digits as a full window.                              *)

DigitSeqs == UNION {[1..n -> DigitBytes] : n \in 1..MaxDigits}

InitV ==
    /\ digits \in DigitSeqs
    /\ numlen = Len(digits)
    /\ mod10 \in BOOLEAN
    /\ quiet = FALSE
    /\ nargs = 0
    /\ pc = "validator"
    /\ input = <<>>
    /\ rd = "none"
    /\ nline = 0
    /\ nread = 0
    /\ header = FALSE
    /\ out = <<>>
    /\ nchecked = 0
    /\ exit = Running
    /\ valid = {}
    /\ earlier = <<>>

\* a call of mod10Valid(digits)
CallMod10Valid ==
    /\ pc = "validator"
    /\ valid' = {mod10Valid(digits)}
    /\ pc' = "mod10Valid"
    /\ UNCHANGED <<numlen, mod10, quiet, nargs, input, rd, digits, nline, nread,
                   header, out, nchecked, exit, earlier>>

\* the report condition evaluated on digits
Report ==
    /\ pc = "validator"
    /\ valid' = {LenOK(digits, numlen) /\ ChecksumOK(digits, mod10)}
    /\ pc' = "report"
    /\ UNCHANGED <<numlen, mod10, quiet, nargs, input, rd, digits, nline, nread,
                   header, out, nchecked, exit, earlier>>

NextV ==
    \/ CallMod10Valid
    \/ Report

SpecV == InitV /\ [][NextV]_vars

----------------------------------------------------------------------------
(* The scan with the default window length over the streams of the worked  *)
(* example: "123456781234567" followed by any one digit.                    *)

Canonical == <<49, 50, 51, 52, 53, 54, 55, 56, 49, 50, 51, 52, 53, 54, 55, 48>>

ExampleStreams ==
    {[i \in 1..Len(Canonical) |-> IF i = Len(Canonical) THEN d ELSE Canonical[i]] :
        d \in DigitBytes}

IsExamplePrefix(s) ==
    \E e \in ExampleStreams : Len(s) <= Len(e) /\ s = SubSeq(e, 1, Len(s))

InitEx ==
    /\ numlen = DefaultNumlen
    /\ mod10 \in BOOLEAN
    /\ quiet \in BOOLEAN
    /\ nargs \in 0..2
    /\ pc = "args"
    /\ input = <<>>
    /\ rd = "none"
    /\ digits = <<>>
    /\ nline = 0
    /\ nread = 0
    /\ header = FALSE
    /\ out = <<>>
    /\ nchecked = 0
    /\ exit = Running
    /\ valid = {}
    /\ earlier = <<>>

\* the stream delivers the next byte of an example stream
ReadExample ==
    \E b \in DigitBytes :
        IsExamplePrefix(Append(input, b)) /\ ReadByte(b) /\ UNCHANGED earlier

NextEx ==
    \/ OpenFail
    \/ MultiArgs
    \/ Begin
    \/ ReadExample
    \/ ReadEOF
    \/ ReadError
    \/ ReadZero

SpecEx == InitEx /\ [][NextEx]_vars

----------------------------------------------------------------------------
(* The earlier variant (src/unnamed/part_000), whose window holds the      *)
(* digits before the check digit, run on the same stream as the later one  *)
(* with -mod10.  Its state is the record earlier: numlen, pc, digits,      *)
(* nline, nread, header, out, exit.                                        *)

RECURSIVE EarlierExpSkipsFirst(_, _, _)
EarlierExpSkipsFirst(ds, i, exp) ==
    IF i > Len(ds) THEN exp
    ELSE EarlierExpSkipsFirst(ds, i + 1,
            IF i = 1 THEN exp ELSE (exp + (ds[i] - 48)) % 10)

RECURSIVE EarlierExp(_, _, _)
\* for _, d := range digits { exp = (exp + (int(d) - '0')) % 10 }, from index i on
EarlierExp(ds, i, exp) ==
    IF i > Len(ds) THEN exp
    ELSE EarlierExp(ds, i + 1, (exp + (ds[i] - 48)) % 10)

\* the line written for a match: nread-len(digits)-1, nline, string(digits), buf[0]
EarlierMatch(nr, nl, ds, b) ==
    [offset |-> nr - Len(ds) - 1, line |-> nl, number |-> Append(ds, b)]

\* print the header unless quiet, set up the scan
EarlierBegin(st, q) ==
    [st EXCEPT !.pc = "scan", !.header = ~q, !.digits = <<>>, !.nline = 0, !.nread = 0]

\* one iteration of the loop on a read that delivers the byte b
EarlierReadByte(st, b) ==
    LET nr == st.nread + 1
        nl == IF b = 10 THEN st.nline + 1 ELSE st.nline
    IN  IF ~IsDigit(b)
        THEN [st EXCEPT !.nread = nr, !.nline = nl,
                        !.digits = IF 0 < Len(st.digits) THEN <<>> ELSE st.digits]
        ELSE [st EXCEPT !.nread = nr, !.nline = nl,
                        !.out = IF Len(st.digits) = st.numlen
                                   /\ (b - 48) = EarlierExp(st.digits, 1, 0)
                                THEN Append(st.out, EarlierMatch(nr, nl, st.digits, b))
                                ELSE st.out,
                        !.digits = Trim(Append(st.digits, b), st.numlen)]

\* the read returns io.EOF: return 0
EarlierEOF(st) == [st EXCEPT !.pc = "done", !.exit = {0}]

InitPair ==
    /\ numlen \in 1..MaxN
    /\ mod10 = TRUE
    /\ quiet \in BOOLEAN
    /\ nargs = 0
    /\ pc = "args"
    /\ input = <<>>
    /\ rd = "none"
    /\ digits = <<>>
    /\ nline = 0
    /\ nread = 0
    /\ header = FALSE
    /\ out = <<>>
    /\ nchecked = 0
    /\ exit = Running
    /\ valid = {}
    /\ earlier = [numlen |-> numlen - 1, pc |-> "args", digits |-> <<>>, nline |-> 0,
                  nread |-> 0, header |-> FALSE, out |-> <<>>, exit |-> Running]

\* both variants start their scan of standard input
PairBegin ==
    /\ pc = "args"
    /\ header' = ~quiet
    /\ digits' = <<>>
    /\ nline' = 0
    /\ nread' = 0
    /\ pc' = "scan"
    /\ earlier' = EarlierBegin(earlier, quiet)
    /\ UNCHANGED <<numlen, mod10, quiet, nargs, input, rd, out, nchecked, exit, valid>>

\* both variants read the next byte of the stream
PairRead ==
    \E b \in Bytes :
        Len(input) < MaxLen /\ ReadByte(b) /\ earlier' = EarlierReadByte(earlier, b)

\* both variants reach the end of the stream
PairEOF ==
    /\ pc = "scan"
    /\ rd' = "eof"
    /\ pc' = "done"
    /\ exit' = {0}
    /\ earlier' = EarlierEOF(earlier)
    /\ UNCHANGED <<numlen, mod10, quiet, nargs, input, digits, nline, nread,
                   header, out, nchecked, valid>>

NextPair ==
    \/ PairBegin
    \/ PairRead
    \/ PairEOF

SpecPair == InitPair /\ [][NextPair]_vars

----------------------------------------------------------------------------
(* What the stream delivered, described independently of the scan state.   *)

\* 1-based positions of s at which a window of n ASCII digits ends
WindowEnds(s, n) ==
    {i \in n..Len(s) : \A j \in (i - n + 1)..i : s[j] \in DigitBytes}

\* the n bytes of s that end at position i
WindowAt(s, n, i) == SubSeq(s, i - n + 1, i)

\* the window ends whose window passes the configured validator
MatchEnds(s, n, m10) ==
    {i \in WindowEnds(s, n) : ChecksumOK(WindowAt(s, n, i), m10)}

RECURSIVE Ascending(_)
\* the elements of a finite set of integers in ascending order
Ascending(S) ==
    IF S = {} THEN <<>>
    ELSE LET m == CHOOSE x \in S : \A y \in S : x <= y
         IN  <<m>> \o Ascending(S \ {m})

\* the ends of the matching windows of the stream so far, in stream order
Ends == Ascending(MatchEnds(input, numlen, mod10))

\* number of newline bytes among the first k bytes of s
NewlinesIn(s, k) == Cardinality({j \in 1..k : s[j] = 10})

\* length of the run of ASCII digits the sequence s ends with
RunLen(s) ==
    LET nd == {j \in 1..Len(s) : s[j] \notin DigitBytes}
    IN  IF nd = {} THEN Len(s)
        ELSE Len(s) - (CHOOSE x \in nd : \A y \in nd : y <= x)

\* the scan has begun (it may have ended since)
Scanned == pc = "scan" \/ (pc = "done" /\ rd # "none")

----------------------------------------------------------------------------
(* C1: the scan validates exactly at the positions where the byte just     *)
(* read and the numlen-1 bytes before it are all ASCII digits, and writes  *)
(* a match exactly where that window also passes the configured validator: *)
(* a digit run of length L >= numlen is validated at L-numlen+1 positions, *)
(* a shorter one never.                                                     *)
C1_SlidingWindows ==
    Scanned =>
        /\ nchecked = Cardinality(WindowEnds(input, numlen))
        /\ LET e == Ends
           IN  /\ Len(out) = Len(e)
               /\ \A k \in 1..Len(out) : out[k].number = WindowAt(input, numlen, e[k])

\* a stream that is one run of digits longer than numlen, validated at every
\* sliding position, with some but not all windows matching
C1_Witness ==
    /\ Scanned
    /\ Len(input) > numlen
    /\ RunLen(input) = Len(input)
    /\ nchecked = Len(input) - numlen + 1
    /\ Len(out) >= 1
    /\ Len(out) < nchecked

(* C2: scanning "1234567812345670" with window length 16 and Luhn writes   *)
(* exactly one match: the full string, offset 0, line 0.                   *)
C2_Example ==
    (pc = "done" /\ rd = "eof" /\ input = Canonical
        /\ numlen = DefaultNumlen /\ ~mod10)
    => out = <<[offset |-> 0, line |-> 0, number |-> Canonical]>>

(* C3: the offset written for a match is the 0-based position in the       *)
(* stream of the first byte of the matched window.                         *)
C3_OffsetIsWindowStart ==
    Scanned =>
        LET e == Ends
        IN  \A k \in 1..Len(out) : k <= Len(e) => out[k].offset = e[k] - numlen

----------------------------------------------------------------------------
\* numeric value of an ASCII digit
Val(b) == b - 48

RECURSIVE SumVals(_, _)
\* the sum of the values of the first k digits of ds
SumVals(ds, k) == IF k = 0 THEN 0 ELSE SumVals(ds, k - 1) + Val(ds[k])

\* ds with its first Len(ds)-1 digits in reverse order
ReversePayload(ds) ==
    [i \in 1..Len(ds) |-> IF i = Len(ds) THEN ds[i] ELSE ds[Len(ds) - i]]

(* C4: mod10Valid is true exactly when the value of the last digit is the  *)
(* sum of the values of the digits before it, reduced modulo 10 once; the  *)
(* order of the digits before it does not matter.                          *)
C4_Mod10 ==
    pc = "mod10Valid" =>
        /\ valid = {Val(digits[Len(digits)]) = SumVals(digits, Len(digits) - 1) % 10}
        /\ valid = {mod10Valid(ReversePayload(digits))}

\* a valid sequence whose payload sums to 10 or more, and an invalid one
C4_Witness ==
    /\ pc = "mod10Valid"
    /\ valid = {TRUE}
    /\ SumVals(digits, Len(digits) - 1) >= 10

\* the value the standard Luhn transform gives the digit k places left of the
\* check digit
LuhnTerm(ds, k) ==
    LET v == Val(ds[Len(ds) - k])
    IN  IF k % 2 = 0 THEN v
        ELSE IF 2 * v >= 10 THEN 2 * v - 9 ELSE 2 * v

RECURSIVE LuhnSum(_, _)
\* the sum of the Luhn terms of the k rightmost digits
LuhnSum(ds, k) == IF k = 0 THEN 0 ELSE LuhnSum(ds, k - 1) + LuhnTerm(ds, k - 1)

(* C5: with the Luhn algorithm selected, a full window is reported exactly *)
(* when its standard Luhn sum is congruent to 0 modulo 10.                 *)
C5_Luhn ==
    (pc = "report" /\ ~mod10 /\ Len(digits) = numlen) =>
        valid = {LuhnSum(digits, Len(digits)) % 10 = 0}

\* a reported window with a doubled digit of 10 or more, not valid under -mod10
C5_Witness ==
    /\ pc = "report"
    /\ ~mod10
    /\ valid = {TRUE}
    /\ Len(digits) >= 2
    /\ Val(digits[Len(digits) - 1]) >= 5
    /\ ~mod10Valid(digits)

----------------------------------------------------------------------------
(* C6: at the end of every step the window holds at most numlen bytes, and *)
(* exactly numlen once the run of digits read is that long or longer.      *)
C6_Bounded ==
    /\ Len(digits) <= numlen
    /\ (Scanned /\ RunLen(input) >= numlen) => Len(digits) = numlen

\* a run of digits longer than numlen has been read
C6_Witness ==
    /\ Scanned
    /\ RunLen(input) > numlen
    /\ Len(digits) = numlen

(* C7: a step on a non-digit byte leaves the window empty and validates    *)
(* and writes nothing; the window never holds a digit read before the last *)
(* non-digit byte.                                                          *)
C7_NonDigitResets ==
    [][input' # input =>
        /\ Len(digits') <= RunLen(input')
        /\ digits' = SubSeq(input', Len(input') - Len(digits') + 1, Len(input'))
        /\ (input'[Len(input')] \notin DigitBytes =>
               digits' = <<>> /\ out' = out /\ nchecked' = nchecked)]_vars

\* a non-digit byte has just been read after a digit, and a digit is read next
C7_Witness ==
    /\ pc = "scan"
    /\ Len(input) >= 3
    /\ input[Len(input) - 2] \in DigitBytes
    /\ input[Len(input) - 1] \notin DigitBytes
    /\ input[Len(input)] \in DigitBytes
    /\ digits = <<input[Len(input)]>>
    /\ numlen >= 2

(* C8: the line number written for a match is the number of newline bytes  *)
(* read up to and including the byte that completed the window, which is   *)
(* the number of newline bytes before the first byte of the window.        *)
C8_Line ==
    Scanned =>
        LET e == Ends
        IN  \A k \in 1..Len(out) : k <= Len(e) =>
                /\ out[k].line = NewlinesIn(input, e[k])
                /\ out[k].line = NewlinesIn(input, e[k] - numlen)

\* a match after a newline, with another newline read after the match
C8_Witness ==
    /\ Scanned
    /\ \E k \in 1..Len(out) : out[k].line >= 1 /\ NewlinesIn(input, Len(input)) > out[k].line

(* C9, as stated: a match that follows a newline is written with a line    *)
(* number one greater than the number of newlines before its start offset  *)
(* (the position of its first byte, or else the offset written for it).    *)
C9_OneGreater ==
    Scanned =>
        LET e == Ends
        IN  \A k \in 1..Len(out) :
                (k <= Len(e) /\ NewlinesIn(input, e[k] - numlen) >= 1) =>
                    \/ out[k].line = NewlinesIn(input, e[k] - numlen) + 1
                    \/ out[k].line = NewlinesIn(input, out[k].offset) + 1

(* C9, amended: a match that follows a newline is written with a line      *)
(* number equal to the number of newlines before its first byte, which is  *)
(* at least 1.                                                              *)
C9_LineAfterNewline ==
    Scanned =>
        LET e == Ends
        IN  \A k \in 1..Len(out) :
                (k <= Len(e) /\ \E j \in 1..(e[k] - numlen) : input[j] = 10) =>
                    /\ out[k].line >= 1
                    /\ out[k].line = Cardinality({j \in 1..(e[k] - numlen) : input[j] = 10})

\* a match on the line after a newline, not directly after the newline
C9_Witness ==
    /\ Scanned
    /\ LET e == Ends
       IN  \E k \in 1..Len(out) :
              /\ out[k].line = 1
              /\ e[k] - numlen >= 2
              /\ input[e[k] - numlen] # 10

----------------------------------------------------------------------------
(* C10: the scan of a finite stream ends; when no read failed it ends at   *)
(* end-of-stream with status 0, every byte counted once, and nothing is    *)
(* validated or written at end-of-stream: a pending partial window is      *)
(* dropped, and an empty stream gives no match.                            *)
C10_Terminates ==
    /\ <>(pc = "done")
    /\ []((pc = "done" /\ rd = "eof") =>
            /\ exit = {0}
            /\ nread = Len(input)
            /\ Len(out) = Cardinality(MatchEnds(input, numlen, mod10))
            /\ (input = <<>> => out = <<>>))
    /\ []((pc = "done" /\ exit = {0}) => rd = "eof")
    /\ [][/\ (input' # input => input' = Append(input, input'[Len(input')])
                                /\ nread' = nread + 1)
          /\ (rd' = "eof" => input' = input /\ out' = out /\ nchecked' = nchecked)]_vars

\* end-of-stream reached with a partial window pending and no match
C10_Witness ==
    /\ pc = "done"
    /\ rd = "eof"
    /\ exit = {0}
    /\ Len(digits) > 0
    /\ Len(digits) < numlen
    /\ out = <<>>

----------------------------------------------------------------------------
(* C11: a read that returns an error other than end-of-stream, or no byte  *)
(* and no error, ends the scan on that step: the bytes delivered, the      *)
(* counters, the window and the matches written stay as they were, mymain  *)
(* returns -3 (read error) or -4 (no byte, no error), never 0, and nothing *)
(* happens after it: the read is not retried.                              *)
C11_AbortOnBadRead ==
    [][/\ rd' \in {"error", "zero"} =>
            /\ pc = "scan"
            /\ pc' = "done"
            /\ exit' = (IF rd' = "error" THEN {-3} ELSE {-4})
            /\ input' = input
            /\ digits' = digits
            /\ nread' = nread
            /\ nline' = nline
            /\ out' = out
            /\ nchecked' = nchecked
       /\ rd \in {"error", "zero"} => vars' = vars]_vars

\* a read failed after a match was written and with digits pending
C11_Witness ==
    /\ pc = "done"
    /\ rd \in {"error", "zero"}
    /\ Len(out) >= 1
    /\ Len(digits) >= 1
    /\ Len(digits) < numlen

\* how the run ended: clean end-of-stream or one of the four failure classes
Outcome ==
    IF rd = "eof" THEN "clean"
    ELSE IF rd = "error" THEN "read error"
    ELSE IF rd = "zero" THEN "zero-byte read"
    ELSE IF nargs > 1 THEN "multiple files"
    ELSE "open failure"

\* the failure class, if any, that a process exit status stands for
OutcomeOfStatus(st) ==
    IF st = 0 THEN "clean"
    ELSE IF st = 255 THEN "open failure"
    ELSE IF st = 254 THEN "multiple files"
    ELSE IF st = 253 THEN "read error"
    ELSE IF st = 252 THEN "zero-byte read"
    ELSE "none"

(* C12: the exit status is 0 exactly for a clean run to end-of-stream; the *)
(* four failure classes end with non-zero statuses that are pairwise       *)
(* distinct, as returned (-1, -2, -3, -4) and as 8-bit statuses: the       *)
(* status determines the class.                                            *)
C12_ExitStatus ==
    pc = "done" =>
        \E code \in -5..0 :
            /\ exit = {code}
            /\ (code = 0) = (Outcome = "clean")
            /\ (ExitStatus(code) = 0) = (Outcome = "clean")
            /\ ExitStatus(code) \in 0..255
            /\ OutcomeOfStatus(ExitStatus(code)) = Outcome
            /\ code = (CASE Outcome = "clean" -> 0
                         [] Outcome = "open failure" -> -1
                         [] Outcome = "multiple files" -> -2
                         [] Outcome = "read error" -> -3
                         [] Outcome = "zero-byte read" -> -4)

\* a run with two file arguments has ended
C12_Witness ==
    /\ pc = "done"
    /\ nargs = 2
    /\ exit = {-2}

(* C13: with more than one positional argument, or with one file that      *)
(* cannot be opened, the run ends before the scan begins: no byte is read, *)
(* no match is written, and standard output holds nothing (not even the    *)
(* header).                                                                *)
C13_AbortBeforeScan ==
    /\ nargs > 1 =>
          /\ pc # "scan"
          /\ pc = "done" => exit = {-2}
          /\ rd = "none" /\ input = <<>> /\ nread = 0
          /\ out = <<>> /\ ~header
    /\ (pc = "done" /\ rd = "none") =>
          /\ nargs >= 1
          /\ nargs = 1 => exit = {-1}
          /\ input = <<>> /\ nread = 0
          /\ out = <<>> /\ ~header

\* a run that was not quiet ended on a file-open failure
C13_Witness ==
    /\ pc = "done"
    /\ nargs = 1
    /\ exit = {-1}
    /\ ~quiet
    /\ ~header

----------------------------------------------------------------------------
\* the matches a scan writes, as a function of the configuration and of the
\* bytes of the stream alone: one per matching window, in stream order
MatchesOf(s, n, m10) ==
    LET e == Ascending(MatchEnds(s, n, m10))
    IN  [k \in 1..Len(e) |->
            [offset |-> e[k] - n - 1,
             line   |-> NewlinesIn(s, e[k] - n),
             number |-> WindowAt(s, n, e[k])]]

(* C14: the matches written are a function of the configuration and the   *)
(* bytes read: two runs over the same bytes write the same records, and a  *)
(* record's offset and line depend only on the position of the matching    *)
(* byte and the newlines before it.                                        *)
C14_Deterministic ==
    Scanned => out = MatchesOf(input, numlen, mod10)

\* the same digits matched twice, at two positions on two lines
C14_Witness ==
    /\ Scanned
    /\ \E j, k \in 1..Len(out) :
          /\ j < k
          /\ out[j].number = out[k].number
          /\ out[j].line < out[k].line

(* C15: a step writes at most one match, after those already written, and  *)
(* of any two matches written the later has the greater offset and a line  *)
(* number at least as great.                                                *)
C15_StreamOrder ==
    [][/\ Len(out') \in {Len(out), Len(out) + 1}
       /\ SubSeq(out', 1, Len(out)) = out
       /\ (Len(out') > Len(out) => input' # input)
       /\ \A j, k \in 1..Len(out') :
             j < k => out'[j].offset < out'[k].offset /\ out'[j].line <= out'[k].line]_vars

\* three matches written, not all on one line
C15_Witness ==
    /\ Len(out) >= 3
    /\ out[1].line < out[Len(out)].line

\* the last n elements of ds, or all of ds when it is shorter
LastN(ds, n) == IF Len(ds) > n THEN SubSeq(ds, Len(ds) - n + 1, Len(ds)) ELSE ds

(* C16: a step on a digit leaves the window (the old window with the digit *)
(* appended, cut to its last numlen bytes) and the counters the same       *)
(* whether or not a match is written on it.                                *)
C16_MatchKeepsState ==
    [][(input' # input /\ input'[Len(input')] \in DigitBytes) =>
          /\ digits' = LastN(Append(digits, input'[Len(input')]), numlen)
          /\ nread' = nread + 1
          /\ nline' = nline]_vars

\* two successive digits each gave a match, over windows sharing numlen-1 digits
C16_Witness ==
    /\ Scanned
    /\ numlen >= 2
    /\ \E k \in 1..(Len(out) - 1) : out[k + 1].offset = out[k].offset + 1

(* C17: at the end of every step the window is the run of digits the bytes *)
(* read end with, cut to its last numlen bytes; nread is the number of     *)
(* bytes read and nline the number of newlines among them.                 *)
C17_StateIsSuffix ==
    Scanned =>
        /\ digits = LastN(SubSeq(input, Len(input) - RunLen(input) + 1, Len(input)), numlen)
        /\ nread = Len(input)
        /\ nline = Cardinality({j \in 1..Len(input) : input[j] = 10})

\* a run of digits longer than numlen after a newline and before which digits were dropped
C17_Witness ==
    /\ Scanned
    /\ nline >= 1
    /\ RunLen(input) > numlen
    /\ RunLen(input) < Len(input)
    /\ digits[1] # digits[Len(digits)]

(* C19: the trimming loop that follows the append of a digit runs at most  *)
(* once on any step: once when the window was already full, not at all     *)
(* otherwise.                                                               *)
C19_TrimOnce ==
    [][(input' # input /\ input'[Len(input')] \in DigitBytes) =>
          LET iters == TrimIters(Append(digits, input'[Len(input')]), numlen)
          IN  /\ iters <= 1
              /\ (iters = 1) = (Len(digits) = numlen)
              /\ Len(digits) <= numlen]_vars

\* the loop has run on two steps in a row
C19_Witness ==
    /\ Scanned
    /\ RunLen(input) >= numlen + 2
    /\ Len(digits) = numlen

----------------------------------------------------------------------------
(* C18: on the same stream, the earlier variant with window length         *)
(* numlen-1 and the later variant with -mod10 and window length numlen     *)
(* write the same number of matches, with the same digits and line numbers *)
(* in the same order, and every offset of the later variant is one less    *)
(* than the earlier variant's.                                             *)
C18_VariantsAgree ==
    /\ earlier.numlen = numlen - 1
    /\ earlier.pc = pc
    /\ Len(out) = Len(earlier.out)
    /\ \A k \in 1..Len(out) :
          /\ out[k].number = earlier.out[k].number
          /\ out[k].line = earlier.out[k].line
          /\ out[k].offset = earlier.out[k].offset - 1

\* both variants wrote two matches, the second after a newline
C18_Witness ==
    /\ numlen >= 2
    /\ Len(earlier.out) >= 2
    /\ Len(out) >= 2
    /\ out[2].line >= 1

====
